---- MODULE Spec2Model ----
(***************************************************************************)
(* Model of MOPAC-G1-Dashboard.py: a Streamlit script that is re-executed  *)
(* from top to bottom on every user interaction ("render pass").  The      *)
(* state that survives a pass is st.session_state (the Allocation Table    *)
(* resource_df and the Deliverables Table deliverables_df) and the edit    *)
(* state Streamlit keeps for every keyed st.data_editor widget.            *)
(***************************************************************************)
EXTENDS Integers, Sequences, FiniteSets, TLC

VARIABLES
  session_state,  \* st.session_state: a mapping whose DOMAIN is the set of keys present
  widgets,        \* the edit state of the keyed st.data_editor widgets
  all_months,     \* script global (line 40)
  phase1_cols,    \* script global (line 41)
  phase2_cols,    \* script global (line 42)
  totals,         \* local of render_phase_view (line 130), <<>> outside it
  pc,             \* position of the script within the current render pass
  phase,          \* which call of render_phase_view is running (line 167 / 170)
  forced,         \* TRUE while the current pass was started by st.rerun()
  shown,          \* what the completed parts of the current pass have put on the page
  gen             \* one call of get_month_columns, stepped through its loop

vars == <<session_state, widgets, all_months, phase1_cols, phase2_cols,
          totals, pc, phase, forced, shown, gen>>

Range(s) == {s[i] : i \in DOMAIN s}

(***************************************************************************)
(* Calendar generator: get_month_columns (lines 25-36)                     *)
(***************************************************************************)
MAXYEAR == 9999        \* datetime.date refuses a year above datetime.MAXYEAR
YearModulus == 100     \* %y prints the year without its century
DefaultStartYear == 2025
DefaultStartMonth == 7
DefaultMonthsCount == 25
PhaseSplit == 12

MonthAbbr ==
  <<"Jan", "Feb", "Mar", "Apr", "May", "Jun",
    "Jul", "Aug", "Sep", "Oct", "Nov", "Dec">>

\* datetime.date(year, month, day): the value, and whether the constructor
\* accepts it (it raises ValueError otherwise).
date(year, month, day) == [year |-> year, month |-> month, day |-> day]

date_ok(year, month, day) ==
  /\ year \in 1..MAXYEAR
  /\ month \in 1..12
  /\ day = 1

TwoDigits(n) == IF n < 10 THEN "0" \o ToString(n) ELSE ToString(n)

\* current_date.strftime("%b '%y")
strftime(d) == MonthAbbr[d.month] \o " '" \o TwoDigits(d.year % YearModulus)

\* One iteration of the loop, lines 30-35, on [cols, current_date, raised].
LoopBody(st) ==
  LET d == st.current_date
      appended == Append(st.cols, strftime(d))
      y == IF d.month = 12 THEN d.year + 1 ELSE d.year
      m == IF d.month = 12 THEN 1 ELSE d.month + 1
  IN  IF date_ok(y, m, 1)
      THEN [cols |-> appended, current_date |-> date(y, m, 1), raised |-> FALSE]
      ELSE [cols |-> appended, current_date |-> d, raised |-> TRUE]

RECURSIVE Iterate(_, _)
Iterate(st, n) ==
  IF n = 0 \/ st.raised THEN st ELSE Iterate(LoopBody(st), n - 1)

\* The whole call, for the script's own use of it (line 40).
get_month_columns(start_year, start_month, months_count) ==
  Iterate([cols |-> <<>>,
           current_date |-> date(start_year, start_month, 1),
           raised |-> FALSE], months_count).cols

(***************************************************************************)
(* The same call stepped through its loop, for arguments other than the    *)
(* defaults.                                                               *)
(***************************************************************************)
MaxMonthsCount == 1201
StartYears == {DefaultStartYear, MAXYEAR - 1}
StartMonths == {1, DefaultStartMonth, 12}
MonthsCounts == {1, PhaseSplit, DefaultMonthsCount, MaxMonthsCount}

GenNotCalled ==
  [pc |-> "none", start_year |-> 0, start_month |-> 0, months_count |-> 0,
   cols |-> <<>>, current_date |-> date(0, 0, 0), i |-> 0]

GenCall(sy, sm, n) ==
  [pc |-> "loop", start_year |-> sy, start_month |-> sm, months_count |-> n,
   cols |-> <<>>, current_date |-> date(sy, sm, 1), i |-> 0]

GenFrame ==
  UNCHANGED <<session_state, widgets, all_months, phase1_cols, phase2_cols,
              totals, pc, phase, forced, shown>>

\* for _ in range(months_count): one more iteration
GenIterate ==
  /\ GenFrame
  /\ gen.pc = "loop"
  /\ gen.i < gen.months_count
  /\ LET st == LoopBody([cols |-> gen.cols, current_date |-> gen.current_date,
                         raised |-> FALSE])
     IN  gen' = [gen EXCEPT !.cols = st.cols,
                            !.current_date = st.current_date,
                            !.i = @ + 1,
                            !.pc = IF st.raised THEN "raise" ELSE "loop"]

\* return cols
GenReturn ==
  /\ GenFrame
  /\ gen.pc = "loop"
  /\ gen.i = gen.months_count
  /\ gen' = [gen EXCEPT !.pc = "return"]

(***************************************************************************)
(* pandas, as far as the script uses it.  A cell is <<v>> or NaN (missing);*)
(* a DataFrame has an ordered index, ordered columns, a dtype per column   *)
(* and data[i, c] for index label i and column label c.                    *)
(***************************************************************************)
Some(v) == <<v>>
NaN == <<>>
isna(x) == x = NaN
notna(x) == x # NaN

DataFrame(index, columns, dtypes, data) ==
  [index |-> index, columns |-> columns, dtypes |-> dtypes, data |-> data]

\* pd.RangeIndex(n): 0 .. n-1
RangeIndex(n) == [k \in 1..n |-> k - 1]

\* df[cols]
Select(df, cols) ==
  DataFrame(df.index, cols,
            [c \in Range(cols) |-> df.dtypes[c]],
            [i \in Range(df.index), c \in Range(cols) |-> df.data[i, c]])

\* df.T (every column of the result holds objects)
Transpose(df) ==
  DataFrame(df.columns, df.index,
            [c \in Range(df.index) |-> "object"],
            [i \in Range(df.columns), c \in Range(df.index) |-> df.data[c, i]])

\* df.columns = names (the k-th column is renamed to names[k])
SetColumns(df, names) ==
  LET old(c) == df.columns[CHOOSE k \in DOMAIN names : names[k] = c]
  IN  DataFrame(df.index, names,
                [c \in Range(names) |-> df.dtypes[old(c)]],
                [i \in Range(df.index), c \in Range(names) |-> df.data[i, old(c)]])

\* sum() skips missing values
NumberOf(x) == IF isna(x) THEN 0 ELSE x[1]

RECURSIVE SumSeq(_)
SumSeq(s) == IF s = <<>> THEN 0 ELSE s[1] + SumSeq(Tail(s))

\* df.sum(axis=1): per index label, the sum over the columns
SumAxis1(df) ==
  [i \in Range(df.index) |->
     SumSeq([k \in 1..Len(df.columns) |-> NumberOf(df.data[i, df.columns[k]])])]

\* df.sum() with the last row left out of the range
SumAxis0SkipsLastRow(df) ==
  [index |-> df.columns,
   data |-> [c \in Range(df.columns) |->
               SumSeq([k \in 1..(Len(df.index) - 1) |-> NumberOf(df.data[df.index[k], c])])]]

\* df.sum(): a Series indexed by the columns, the sum over the rows
SumAxis0(df) ==
  [index |-> df.columns,
   data |-> [c \in Range(df.columns) |->
               SumSeq([k \in 1..Len(df.index) |-> NumberOf(df.data[df.index[k], c])])]]

\* Series.sum()
SeriesSum(s) == SumSeq([k \in 1..Len(s.index) |-> s.data[s.index[k]]])

\* Series.max() and Series.idxmax(): one scan from the left that keeps the
\* first position holding the largest value seen.
RECURSIVE ArgMaxFrom(_, _, _)
ArgMaxFrom(s, k, best) ==
  IF k > Len(s.index) THEN best
  ELSE ArgMaxFrom(s, k + 1,
                  IF s.data[s.index[k]] > s.data[s.index[best]] THEN k ELSE best)

\* the scan with >= in place of >: it keeps the last position of the largest value
RECURSIVE ArgMaxLastFrom(_, _, _)
ArgMaxLastFrom(s, k, best) ==
  IF k > Len(s.index) THEN best
  ELSE ArgMaxLastFrom(s, k + 1,
                      IF s.data[s.index[k]] >= s.data[s.index[best]] THEN k ELSE best)

SeriesIdxMaxLast(s) == s.index[ArgMaxLastFrom(s, 2, 1)]

SeriesIdxMax(s) == s.index[ArgMaxFrom(s, 2, 1)]
SeriesMax(s) == s.data[SeriesIdxMax(s)]

\* df[name] = values (a new last column)
AssignColumn(df, name, values, dtype) ==
  DataFrame(df.index, Append(df.columns, name),
            [c \in Range(df.columns) \cup {name} |->
               IF c = name THEN dtype ELSE df.dtypes[c]],
            [i \in Range(df.index), c \in Range(df.columns) \cup {name} |->
               IF c = name THEN Some(values[i]) ELSE df.data[i, c]])

\* a.equals(b)
equals(a, b) ==
  /\ a.index = b.index
  /\ a.columns = b.columns
  /\ a.data = b.data

\* self.update(other): other is reindexed to self's index (a label other does
\* not have gives a row of NaN); in every column both have, the cells of
\* other that are not NaN overwrite self's.
update(self, other) ==
  LET that(i, c) == IF i \in Range(other.index) THEN other.data[i, c] ELSE NaN
  IN  [self EXCEPT !.data =
         [i \in Range(self.index), c \in Range(self.columns) |->
            IF c \in Range(other.columns) /\ notna(that(i, c))
            THEN that(i, c)
            ELSE self.data[i, c]]]

RECURSIVE Join(_, _)
Join(fields, sep) ==
  IF fields = <<>> THEN ""
  ELSE IF Len(fields) = 1 THEN fields[1]
  ELSE fields[1] \o sep \o Join(Tail(fields), sep)

CsvField(x, dtype) ==
  IF isna(x) THEN "" ELSE IF dtype = "int64" THEN ToString(x[1]) ELSE x[1]

CsvLine(df, i) ==
  Join([k \in 1..Len(df.columns) |->
          CsvField(df.data[i, df.columns[k]], df.dtypes[df.columns[k]])], ",")

\* df.to_csv(index=False): the header, then one line per row
to_csv(df) ==
  Join(<<Join(df.columns, ",")>> \o [k \in 1..Len(df.index) |-> CsvLine(df, df.index[k])],
       "\n") \o "\n"

\* s[:k-1] and s[k-1:], the slices with the split one place early
SliceToShort(s, k) == SubSeq(s, 1, k - 1)
SliceFromEarly(s, k) == SubSeq(s, k, Len(s))

\* s[:k] and s[k:] of a Python list
SliceTo(s, k) == SubSeq(s, 1, IF k < Len(s) THEN k ELSE Len(s))
SliceFrom(s, k) == SubSeq(s, k + 1, Len(s))

(***************************************************************************)
(* st.data_editor with a key.  Streamlit keeps, per key, the cells the     *)
(* user has edited, for as long as the widget is called with the data the  *)
(* edits were made on; called with other data it is a new widget without   *)
(* edits.  It returns the data with the kept edits applied.                *)
(* edits is a set of <<index label, column label, cell>>.                  *)
(***************************************************************************)
EmptyMapping == [k \in {} |-> 0]
NoEdits == {}

WidgetEdits(data, key) ==
  IF key \in DOMAIN widgets /\ widgets[key].data = data
  THEN widgets[key].edits
  ELSE NoEdits

ApplyEdits(data, edits) ==
  [data EXCEPT !.data =
     [i \in Range(data.index), c \in Range(data.columns) |->
        IF \E e \in edits : e[1] = i /\ e[2] = c
        THEN (CHOOSE e \in edits : e[1] = i /\ e[2] = c)[3]
        ELSE data.data[i, c]]]

data_editor(data, key) == ApplyEdits(data, WidgetEdits(data, key))

\* The widget store after the call.
Registered(data, key) ==
  (key :> [data |-> data, edits |-> WidgetEdits(data, key)]) @@ widgets

\* The user's new edits laid over the ones the widget already holds.
MergeEdits(old, new) ==
  {e \in old : ~ \E n \in new : n[1] = e[1] /\ n[2] = e[2]} \cup new

(***************************************************************************)
(* The script                                                              *)
(***************************************************************************)
SeedResource ==
  <<"Sarah Jenkins", "David Chen", "Priya Patel", "Marcus Johnson", "Analyst Pool">>
SeedRole ==
  <<"Partner", "Engagement Mgr", "Senior Associate", "Associate", "Analyst Support">>
SeedGrade == <<"L1", "L3", "L4", "L5", "L6">>
MetaColumns == <<"Resource", "Role", "Grade">>

\* lines 46-55: pd.DataFrame(data)
SeedResourceFrame(months) ==
  LET columns == MetaColumns \o months
      index == RangeIndex(Len(SeedResource))
  IN  DataFrame(index, columns,
        [c \in Range(columns) |-> IF c \in Range(MetaColumns) THEN "object" ELSE "int64"],
        [i \in Range(index), c \in Range(columns) |->
           IF c = "Resource" THEN Some(SeedResource[i + 1])
           ELSE IF c = "Role" THEN Some(SeedRole[i + 1])
           ELSE IF c = "Grade" THEN Some(SeedGrade[i + 1])
           ELSE Some(0)])

\* lines 59-63: pd.DataFrame([[""] * len(all_months)], columns=all_months, index=[...])
SeedDeliverablesFrame(months) ==
  DataFrame(<<"Key Deliverables">>, months,
            [c \in Range(months) |-> "object"],
            [i \in {"Key Deliverables"}, c \in Range(months) |-> Some("")])

\* the seeding without its "not in st.session_state" test
InitResourceAlways(state, months) ==
  ("resource_df" :> SeedResourceFrame(months)) @@ state

\* lines 45-55 and 57-63: each table is seeded only when its key is absent
InitResource(state, months) ==
  IF "resource_df" \notin DOMAIN state
  THEN ("resource_df" :> SeedResourceFrame(months)) @@ state
  ELSE state

InitDeliverables(state, months) ==
  IF "deliverables_df" \notin DOMAIN state
  THEN ("deliverables_df" :> SeedDeliverablesFrame(months)) @@ state
  ELSE state

Blank ==
  [csv |-> NaN,
   phase_total |-> [p \in 1..2 |-> NaN],
   summary |-> [p \in 1..2 |-> NaN],
   grand_total |-> NaN]

\* lines 167 and 170: the arguments of the two calls of render_phase_view
ColsOf(p) == IF p = 1 THEN phase1_cols ELSE phase2_cols
phase_name(p) == IF p = 1 THEN "Year 1" ELSE "Year 2"
GridKey(p) == "editor_" \o phase_name(p)
DelKey(p) == "del_editor_" \o phase_name(p)

\* lines 38-63
Initialization ==
  /\ pc = "init"
  /\ LET months == get_month_columns(DefaultStartYear, DefaultStartMonth,
                                     DefaultMonthsCount)
     IN  /\ all_months' = months
         /\ phase1_cols' = SliceTo(months, PhaseSplit)
         /\ phase2_cols' = SliceFrom(months, PhaseSplit)
         /\ session_state' = InitDeliverables(InitResource(session_state, months), months)
  /\ pc' = "header"
  /\ UNCHANGED <<widgets, totals, phase, forced, shown, gen>>

\* lines 65-80: the download button is given the CSV text of the table as it is now
Header ==
  /\ pc = "header"
  /\ shown' = [shown EXCEPT !.csv = Some(to_csv(session_state.resource_df))]
  /\ pc' = "grid"
  /\ phase' = 1
  /\ UNCHANGED <<session_state, widgets, all_months, phase1_cols, phase2_cols,
                 totals, forced, gen>>

\* lines 87-91
df_view(cols) ==
  LET view == Select(session_state.resource_df, <<"Resource", "Role">> \o cols)
  IN  AssignColumn(view, "Phase Total", SumAxis1(Select(view, cols)), "int64")

\* lines 106-116
edited_df(cols, p) == data_editor(df_view(cols), GridKey(p))

\* lines 85-121, the edited grid equals the view: on to line 126
GridUnchanged ==
  /\ pc = "grid"
  /\ LET view == df_view(ColsOf(phase))
         edited == edited_df(ColsOf(phase), phase)
     IN  /\ equals(edited, view)
         /\ widgets' = Registered(view, GridKey(phase))
         /\ shown' = [shown EXCEPT !.phase_total[phase] =
                        Some([i \in Range(view.index) |-> edited.data[i, "Phase Total"][1]])]
  /\ pc' = "deliverables"
  /\ UNCHANGED <<session_state, all_months, phase1_cols, phase2_cols, totals,
                 phase, forced, gen>>

\* the reconciliation without its st.rerun(): the pass goes on to line 126
GridReconcileNoRerun ==
  /\ pc = "grid"
  /\ LET view == df_view(ColsOf(phase))
         edited == edited_df(ColsOf(phase), phase)
     IN  /\ ~ equals(edited, view)
         /\ widgets' = Registered(view, GridKey(phase))
         /\ session_state' =
              [session_state EXCEPT !.resource_df =
                 update(@, Select(edited, ColsOf(phase)))]
         /\ shown' = [shown EXCEPT !.phase_total[phase] =
                        Some([i \in Range(view.index) |->
                                NumberOf(edited.data[i, "Phase Total"])])]
  /\ pc' = "deliverables"
  /\ UNCHANGED <<all_months, phase1_cols, phase2_cols, totals, phase, forced, gen>>

\* lines 85-124, the edited grid differs: update the table, then st.rerun()
\* abandons this pass and starts the script again
GridReconcile ==
  /\ pc = "grid"
  /\ LET view == df_view(ColsOf(phase))
         edited == edited_df(ColsOf(phase), phase)
     IN  /\ ~ equals(edited, view)
         /\ widgets' = Registered(view, GridKey(phase))
         /\ session_state' =
              [session_state EXCEPT !.resource_df =
                 update(@, Select(edited, ColsOf(phase)))]
  /\ pc' = "init"
  /\ phase' = 0
  /\ forced' = TRUE
  /\ shown' = Blank
  /\ UNCHANGED <<all_months, phase1_cols, phase2_cols, totals, gen>>

\* lines 136-137
del_view(cols) ==
  SetColumns(Transpose(Select(session_state.deliverables_df, cols)),
             <<"Deliverable Description">>)

\* lines 126-150
Deliverables ==
  /\ pc = "deliverables"
  /\ totals' = Some(SumAxis0(Select(session_state.resource_df, ColsOf(phase))))
  /\ LET view == del_view(ColsOf(phase))
         edited_deliverables == data_editor(view, DelKey(phase))
         updated_del == Transpose(edited_deliverables)
     IN  /\ widgets' = Registered(view, DelKey(phase))
         /\ session_state' =
              IF ~ equals(edited_deliverables, view)
              THEN [session_state EXCEPT !.deliverables_df = update(@, updated_del)]
              ELSE session_state
  /\ pc' = "stats"
  /\ UNCHANGED <<all_months, phase1_cols, phase2_cols, phase, forced, shown, gen>>

\* line 162: the value total_days_phase / len(cols), and its text under :.1f
\* (to the nearest tenth, a tie to the even tenth)
FormatF1(num, den) ==
  LET a == IF num < 0 THEN -num ELSE num
      q == (10 * a) \div den
      r == (10 * a) % den
      t == IF 2 * r > den \/ (2 * r = den /\ q % 2 = 1) THEN q + 1 ELSE q
  IN  (IF num < 0 THEN "-" ELSE "") \o ToString(t \div 10) \o "." \o ToString(t % 10)

\* lines 152-162, and the return to line 168 or 172
PhaseSummary ==
  /\ pc = "stats"
  /\ LET total_days_phase == SeriesSum(totals[1])
         busy_month == SeriesIdxMax(totals[1])
         busy_count == SeriesMax(totals[1])
     IN  shown' = [shown EXCEPT !.summary[phase] =
                     Some([total_days |-> total_days_phase,
                           peak_month |-> busy_month,
                           peak_count |-> busy_count,
                           burn_rate |-> <<total_days_phase, Len(ColsOf(phase))>>,
                           burn_text |-> FormatF1(total_days_phase, Len(ColsOf(phase)))
                                           \o " days/mo"])]
  /\ totals' = NaN
  /\ IF phase = 1
     THEN pc' = "grid" /\ phase' = 2
     ELSE pc' = "footer" /\ phase' = 0
  /\ UNCHANGED <<session_state, widgets, all_months, phase1_cols, phase2_cols,
                 forced, gen>>

\* lines 172-175; the pass is complete and the page waits for the user
Footer ==
  /\ pc = "footer"
  /\ shown' = [shown EXCEPT !.grand_total =
                 Some(SeriesSum(SumAxis0(Select(session_state.resource_df, all_months))))]
  /\ pc' = "idle"
  /\ forced' = FALSE
  /\ UNCHANGED <<session_state, widgets, all_months, phase1_cols, phase2_cols,
                 totals, phase, gen>>

(***************************************************************************)
(* The user.  Between two passes the user changes cells of one grid, or    *)
(* the text of one deliverable, or does something else that re-executes    *)
(* the script; Streamlit records the edit in the widget and runs a pass.   *)
(***************************************************************************)
MaxBatch == 2
EditValues == {-1, 5, 10}
EditCellValues == {Some(v) : v \in EditValues} \cup {NaN}
\* <<index label, position in the phase's window>> of the cells the user edits
EditPositions(p) == IF p = 1 THEN {<<4, 1>>, <<4, 2>>} ELSE {<<4, 1>>}
DelPositions == {1}
DelTexts == {"Go-live"}

\* What the widget shows: its data with the edits it holds.
Displayed(key) == ApplyEdits(widgets[key].data, widgets[key].edits)

StartPass ==
  /\ pc' = "init"
  /\ forced' = FALSE
  /\ shown' = Blank
  /\ UNCHANGED <<session_state, all_months, phase1_cols, phase2_cols, totals,
                 phase, gen>>

UserEditsGrid(p) ==
  /\ pc = "idle"
  /\ \E cells \in SUBSET {<<pos[1], ColsOf(p)[pos[2]]>> : pos \in EditPositions(p)} :
       /\ Cardinality(cells) \in 1..MaxBatch
       /\ \E typed \in [cells -> EditCellValues] :
            /\ \A c \in cells : Displayed(GridKey(p)).data[c[1], c[2]] # typed[c]
            /\ widgets' = [widgets EXCEPT ![GridKey(p)].edits =
                 MergeEdits(@, {<<c[1], c[2], typed[c]>> : c \in cells})]
  /\ StartPass

UserEditsDeliverables(p) ==
  /\ pc = "idle"
  /\ \E k \in DelPositions, text \in DelTexts :
       /\ Displayed(DelKey(p)).data[ColsOf(p)[k], "Deliverable Description"] # Some(text)
       /\ widgets' = [widgets EXCEPT ![DelKey(p)].edits =
            MergeEdits(@, {<<ColsOf(p)[k], "Deliverable Description", Some(text)>>})]
  /\ StartPass

UserReruns ==
  /\ pc = "idle"
  /\ widgets' = widgets
  /\ StartPass

Init ==
  /\ session_state = EmptyMapping
  /\ widgets = EmptyMapping
  /\ all_months = <<>>
  /\ phase1_cols = <<>>
  /\ phase2_cols = <<>>
  /\ totals = NaN
  /\ pc = "init"
  /\ phase = 0
  /\ forced = FALSE
  /\ shown = Blank
  /\ gen = GenNotCalled

Next ==
  \/ Initialization
  \/ Header
  \/ GridUnchanged
  \/ GridReconcile
  \/ Deliverables
  \/ PhaseSummary
  \/ Footer
  \/ \E p \in 1..2 : UserEditsGrid(p)
  \/ \E p \in 1..2 : UserEditsDeliverables(p)
  \/ UserReruns

Spec == Init /\ [][Next]_vars

\* get_month_columns alone, on arguments drawn from the sets above
GenInit ==
  /\ session_state = EmptyMapping
  /\ widgets = EmptyMapping
  /\ all_months = <<>>
  /\ phase1_cols = <<>>
  /\ phase2_cols = <<>>
  /\ totals = NaN
  /\ pc = "none"
  /\ phase = 0
  /\ forced = FALSE
  /\ shown = Blank
  /\ gen \in {GenCall(sy, sm, n) : sy \in StartYears, sm \in StartMonths, n \in MonthsCounts}

GenNext ==
  \/ GenIterate
  \/ GenReturn

SpecGen == GenInit /\ [][GenNext]_vars

(***************************************************************************)
(* Properties                                                              *)
(***************************************************************************)
HasTables ==
  /\ "resource_df" \in DOMAIN session_state
  /\ "deliverables_df" \in DOMAIN session_state

Rows == Range(session_state.resource_df.index)

\* The sum of the values of a function with a finite domain.
RECURSIVE SumFn(_)
SumFn(f) ==
  IF DOMAIN f = {} THEN 0
  ELSE LET x == CHOOSE y \in DOMAIN f : TRUE
       IN  f[x] + SumFn([y \in DOMAIN f \ {x} |-> f[y]])

CellValue(i, c) == session_state.resource_df.data[i, c][1]
\* one month over all rows, one row over a window, a window month by month,
\* a window row by row
MonthTotal(c) == SumFn([i \in Rows |-> CellValue(i, c)])
RowTotal(i, cols) == SumFn([c \in Range(cols) |-> CellValue(i, c)])
WindowTotal(cols) == SumFn([c \in Range(cols) |-> MonthTotal(c)])
CellsTotal(cols) == SumFn([i \in Rows |-> RowTotal(i, cols)])

\* C1: a step changes cells of the Allocation Table only when it reconciles a
\* phase grid, and then only in MonthKey columns of that phase and in no
\* MonthKey column of the other phase; the Resource, Role and Grade columns,
\* the rows and the columns stay as they are, and there is no "Phase Total"
\* column in the table.
C1_ReconciliationScoping ==
  [][ "resource_df" \in DOMAIN session_state =>
        LET old == session_state.resource_df
            new == session_state'.resource_df
            changed == {c \in Range(old.columns) :
                          \E i \in Range(old.index) : new.data[i, c] # old.data[i, c]}
        IN  /\ new.index = old.index
            /\ new.columns = old.columns
            /\ "Phase Total" \notin Range(new.columns)
            /\ changed \cap Range(MetaColumns) = {}
            /\ changed # {} =>
                 /\ pc = "grid"
                 /\ changed \subseteq Range(ColsOf(phase))
                 /\ changed \cap Range(ColsOf(3 - phase)) = {} ]_vars

\* C1 witness: an edit of the Phase 1 grid and an edit of the Phase 2 grid
\* have both been reconciled.
C1_Witness ==
  /\ pc = "idle"
  /\ session_state.resource_df.data[4, "Jul '25"] = Some(10)
  /\ session_state.resource_df.data[4, "Jul '26"] = Some(5)

\* C2: the tables are absent only before the first pass has initialized, and
\* the initialization step of every later pass leaves session_state as it is.
C2_InitIdempotent ==
  /\ [](~ HasTables => (pc = "init" /\ ~ forced /\ widgets = EmptyMapping))
  /\ [][ (pc = "init" /\ HasTables) => session_state' = session_state ]_vars

\* C2 witness: the initialization step of a later pass has run on a table
\* that holds an edit, and the edit is still there.
C2_Witness ==
  /\ pc = "header"
  /\ ~ forced
  /\ session_state.resource_df.data[4, "Jul '25"] = Some(10)

\* C3: reconciliation leaves a cell whose edit is missing (non-numeric) or
\* negative at its previous value and applies the other edits of the batch,
\* and every month cell of the Allocation Table is a non-negative integer.
C3_Validation ==
  /\ [](HasTables =>
          \A i \in Rows, c \in Range(all_months) :
             /\ notna(session_state.resource_df.data[i, c])
             /\ session_state.resource_df.data[i, c][1] >= 0)
  /\ [][ (pc = "grid" /\ pc' = "init") =>
           LET edited == edited_df(ColsOf(phase), phase)
           IN  \A i \in Rows, c \in Range(ColsOf(phase)) :
                  session_state'.resource_df.data[i, c] =
                    IF isna(edited.data[i, c]) \/ edited.data[i, c][1] < 0
                    THEN session_state.resource_df.data[i, c]
                    ELSE edited.data[i, c] ]_vars

\* C4: after the deliverables step of a phase, the Deliverables Table holds,
\* for every MonthKey of the phase, the text the editor returned, the entries
\* outside the phase are unchanged, and the table has one entry per MonthKey.
C4_DeliverablesWriteBack ==
  [][ pc = "deliverables" =>
        LET edited == data_editor(del_view(ColsOf(phase)), DelKey(phase))
            old == session_state.deliverables_df
            new == session_state'.deliverables_df
        IN  /\ new.columns = all_months
            /\ new.index = <<"Key Deliverables">>
            /\ \A c \in Range(all_months) :
                 new.data["Key Deliverables", c] =
                   IF c \in Range(ColsOf(phase))
                   THEN edited.data[c, "Deliverable Description"]
                   ELSE old.data["Key Deliverables", c] ]_vars

\* C5: a pass that st.rerun() started does not force another rerun, and when
\* the page is idle the Phase Total of every row, the phase summaries and the
\* grand total are the values of the Allocation Table as it is.
C5_ForcedRefresh ==
  /\ [][ (pc = "grid" /\ forced) => pc' # "init" ]_vars
  /\ [](pc = "idle" =>
          /\ \A p \in 1..2 :
               /\ \A i \in Rows :
                    shown.phase_total[p][1][i] = RowTotal(i, ColsOf(p))
               /\ shown.summary[p][1].total_days = WindowTotal(ColsOf(p))
          /\ shown.grand_total = Some(CellsTotal(all_months)))

\* C6: when a pass is complete, the CSV text offered for download is the
\* serialization of the Allocation Table as it is now: the header Resource,
\* Role, Grade and the 25 months, then one line per resource.
C6_ExportCurrent ==
  pc = "idle" =>
    /\ shown.csv = Some(to_csv(session_state.resource_df))
    /\ session_state.resource_df.columns = MetaColumns \o all_months
    /\ Len(all_months) = DefaultMonthsCount
    /\ Len(session_state.resource_df.index) = Len(SeedResource)

\* C6 witness: Jul '25 = 10 and Aug '25 = 5 were set for "Analyst Pool", and
\* the text offered shows them.
ExampleCsv ==
  "Resource,Role,Grade,Jul '25,Aug '25,Sep '25,Oct '25,Nov '25,Dec '25,Jan '26,Feb '26,Mar '26,Apr '26,May '26,Jun '26,Jul '26,Aug '26,Sep '26,Oct '26,Nov '26,Dec '26,Jan '27,Feb '27,Mar '27,Apr '27,May '27,Jun '27,Jul '27\n" \o
  "Sarah Jenkins,Partner,L1,0,0,0,0,0,0,0,0,0,0,0,0,0,0,0,0,0,0,0,0,0,0,0,0,0\n" \o
  "David Chen,Engagement Mgr,L3,0,0,0,0,0,0,0,0,0,0,0,0,0,0,0,0,0,0,0,0,0,0,0,0,0\n" \o
  "Priya Patel,Senior Associate,L4,0,0,0,0,0,0,0,0,0,0,0,0,0,0,0,0,0,0,0,0,0,0,0,0,0\n" \o
  "Marcus Johnson,Associate,L5,0,0,0,0,0,0,0,0,0,0,0,0,0,0,0,0,0,0,0,0,0,0,0,0,0\n" \o
  "Analyst Pool,Analyst Support,L6,10,5,0,0,0,0,0,0,0,0,0,0,0,0,0,0,0,0,0,0,0,0,0,0,0\n"

C6_Witness ==
  /\ pc = "idle"
  /\ shown.csv = Some(ExampleCsv)

\* C7: get_month_columns returns months_count keys, pairwise distinct, the
\* k-th being the label of the month k-1 months after the start month.
C7_MonthColumns ==
  gen.pc = "return" =>
    /\ Len(gen.cols) = gen.months_count
    /\ Cardinality(Range(gen.cols)) = Len(gen.cols)
    /\ \A k \in 1..Len(gen.cols) :
         LET n == (gen.start_month - 1) + (k - 1)
         IN  gen.cols[k] = strftime(date(gen.start_year + (n \div 12), (n % 12) + 1, 1))

\* C8: the two windows concatenate to the horizon, the first has PhaseSplit
\* months, and no MonthKey is in both.
C8_PhasePartition ==
  HasTables =>
    /\ phase1_cols \o phase2_cols = all_months
    /\ Len(phase1_cols) = PhaseSplit
    /\ Range(phase1_cols) \cap Range(phase2_cols) = {}

\* C8 witness: the second call of render_phase_view works on the 13 months
\* from Jul '26 on, the first one ended at Jun '26.
C8_Witness ==
  /\ pc = "stats"
  /\ phase = 2
  /\ Len(phase2_cols) = 13
  /\ phase1_cols[12] = "Jun '26"
  /\ phase2_cols[1] = "Jul '26"

\* C9: the per-month totals are the sums over the rows, the phase total is
\* the sum of the cells of the window, the burn rate is the phase total over
\* the number of months of the window, and the grand total is the sum of all
\* month cells, which is the sum of the two phase totals.
C9_Aggregation ==
  /\ totals # NaN =>
       /\ totals[1].index = ColsOf(phase)
       /\ \A c \in Range(ColsOf(phase)) : totals[1].data[c] = MonthTotal(c)
  /\ \A p \in 1..2 :
       shown.summary[p] # NaN =>
         /\ shown.summary[p][1].total_days = WindowTotal(ColsOf(p))
         /\ shown.summary[p][1].total_days = CellsTotal(ColsOf(p))
         /\ shown.summary[p][1].burn_rate =
              <<WindowTotal(ColsOf(p)), Cardinality(Range(ColsOf(p)))>>
  /\ shown.grand_total # NaN =>
       /\ shown.grand_total[1] = CellsTotal(all_months)
       /\ shown.grand_total[1] = shown.summary[1][1].total_days
                                   + shown.summary[2][1].total_days

\* C9 witness: Jul '25 = 10 and Aug '25 = 5 in one row, 5 in another month of
\* Phase 2: Phase 1 totals 15 over 12 months, the grand total is 20.
C9_Witness ==
  /\ pc = "idle"
  /\ shown.summary[1][1].total_days = 15
  /\ shown.summary[1][1].burn_rate = <<15, 12>>
  /\ shown.summary[2][1].total_days = 5
  /\ shown.grand_total = Some(20)

\* C10: the peak month is a MonthKey of the window whose total is the largest
\* of the window, no earlier month of the window reaches that total, and the
\* peak count is that total.
C10_PeakMonth ==
  \A p \in 1..2 :
    shown.summary[p] # NaN =>
      LET cols == ColsOf(p)
          peak == shown.summary[p][1].peak_month
      IN  /\ peak \in Range(cols)
          /\ shown.summary[p][1].peak_count = MonthTotal(peak)
          /\ \A k \in 1..Len(cols) :
               /\ MonthTotal(cols[k]) <= MonthTotal(peak)
               /\ (MonthTotal(cols[k]) = MonthTotal(peak) /\ cols[k] # peak) =>
                    \E j \in 1..(k - 1) : cols[j] = peak

\* C10 witness: Jul '25 and Aug '25 both total 10, and Jul '25 is the peak.
C10_Witness ==
  /\ pc = "idle"
  /\ session_state.resource_df.data[4, "Jul '25"] = Some(10)
  /\ session_state.resource_df.data[4, "Aug '25"] = Some(10)
  /\ shown.summary[1][1].peak_month = "Jul '25"
  /\ shown.summary[1][1].peak_count = 10

====
